---- MODULE Spec2Model ----
(***************************************************************************)
(* A model of the reshaping engine (kgforge/core/reshaping.py) and of the  *)
(* resource <-> dataframe conversions of Knowledge Graph Forge.            *)
(*                                                                         *)
(* A Python string is a sequence of symbols; the symbol "." is the         *)
(* character the reshaper splits paths on.  A Python value is a tagged     *)
(* tuple, the tag first:                                                   *)
(*    <<"S", s>>        a str, s the sequence of its symbols               *)
(*    <<"N">>           None                                               *)
(*    <<"B", b>>        a bool                                             *)
(*    <<"O", name>>     an opaque object (an Action, a store metadata map) *)
(*    <<"L", xs>>       a list, xs the sequence of its elements            *)
(*    <<"R", ps, m>>    a Resource: ps the sequence of <<name, value>>     *)
(*                      properties in insertion order, m the record of its *)
(*                      four reserved attributes                           *)
(* The outcome of a call is <<"ok", value>> or <<"err", kind, message>>.   *)
(***************************************************************************)
EXTENDS Integers, Sequences, FiniteSets, TLC

VARIABLES input, call, ret, first

vars == <<input, call, ret, first>>

-----------------------------------------------------------------------------
(* Bounds of the model. *)

\* The longest list (of resources, of list elements) the inputs hold.
MaxLen == 2

\* The most resources a batch converted to a dataframe holds, and the most
\* rows a dataframe converted to resources holds.
MaxRows == 2

\* Every keep of up to MaxKeep of the paths KeepPaths is an input (and so
\* are the keeps of one path and the two-path keeps of PairKeeps).
MaxKeep == 2

-----------------------------------------------------------------------------
(* Python values. *)

Str(s) == <<"S", s>>

None == <<"N">>

Bool(b) == <<"B", b>>

Opaque(n) == <<"O", n>>

List(xs) == <<"L", xs>>

MkResource(props, meta) == <<"R", props, meta>>

Tag(v) == v[1]

IsList(v) == Tag(v) = "L"

IsResource(v) == Tag(v) = "R"

Elems(v) == v[2]

Props(r) == r[2]

Meta(r) == r[3]

Ok(v) == <<"ok", v>>

Err(kind, msg) == <<"err", kind, msg>>

IsOk(o) == o[1] = "ok"

IsErr(o) == o[1] = "err"

Val(o) == o[2]

Kind(o) == o[2]

Msg(o) == o[3]

\* All sequences over S of length at most n.
SeqsUpTo(S, n) == UNION {[1..k -> S] : k \in 0..n}

-----------------------------------------------------------------------------
(* Resource: the attribute store the reshaper reads and writes. *)

\* The reserved attributes of a Resource and their state after construction.
DefaultMeta ==
    [last_action |-> None, validated |-> Bool(FALSE),
     synchronized |-> Bool(FALSE), store_metadata |-> None]

_RESERVED ==
    {<<"_last_action">>, <<"_validated">>, <<"_synchronized">>, <<"_store_metadata">>}

\* Resource(**properties): a new resource, its reserved attributes reset.
Resource(props) == MkResource(props, DefaultMeta)

\* value.__dict__.items(): the properties, then the reserved attributes.
__dict__(r) ==
    Props(r) \o << <<<<"_last_action">>, Meta(r).last_action>>,
                   <<<<"_validated">>, Meta(r).validated>>,
                   <<<<"_synchronized">>, Meta(r).synchronized>>,
                   <<<<"_store_metadata">>, Meta(r).store_metadata>> >>

HasAttr(v, name) ==
    /\ IsResource(v)
    /\ \E i \in 1..Len(__dict__(v)) : __dict__(v)[i][1] = name

\* getattr(resource, name): the attribute's value, or an AttributeError that
\* names it.
getattr(v, name) ==
    IF HasAttr(v, name)
    THEN Ok(__dict__(v)[CHOOSE j \in 1..Len(__dict__(v)) :
                           __dict__(v)[j][1] = name][2])
    ELSE Err("AttributeError", name)

\* setattr(resource, name, value).
setattr(r, name, value) ==
    LET ps == Props(r)
        m  == Meta(r)
    IN  CASE name = <<"_last_action">> ->
               MkResource(ps, [m EXCEPT !.last_action = value])
          [] name = <<"_validated">> ->
               MkResource(ps, [m EXCEPT !.validated = value])
          [] name = <<"_synchronized">> ->
               MkResource(ps, [m EXCEPT !.synchronized = value])
          [] name = <<"_store_metadata">> ->
               MkResource(ps, [m EXCEPT !.store_metadata = value])
          [] OTHER ->
               IF \E i \in 1..Len(ps) : ps[i][1] = name
               THEN MkResource([i \in 1..Len(ps) |->
                                   IF ps[i][1] = name THEN <<name, value>> ELSE ps[i]], m)
               ELSE MkResource(Append(ps, <<name, value>>), m)

-----------------------------------------------------------------------------
(* Strings. *)

\* The index of the first sep of s at or after i, 0 when there is none.
RECURSIVE Find(_, _, _)
Find(s, sep, i) ==
    IF i > Len(s) THEN 0
    ELSE IF s[i] = sep THEN i
    ELSE Find(s, sep, i + 1)

\* x.split(sep)
RECURSIVE split(_, _)
split(x, sep) ==
    LET i == Find(x, sep, 1)
    IN  IF i = 0 THEN <<x>>
        ELSE <<SubSeq(x, 1, i - 1)>> \o split(SubSeq(x, i + 1, Len(x)), sep)

\* sep.join(parts)
RECURSIVE join(_, _)
join(parts, sep) ==
    IF parts = <<>> THEN <<>>
    ELSE IF Len(parts) = 1 THEN parts[1]
    ELSE parts[1] \o <<sep>> \o join(Tail(parts), sep)

\* x.split(".", maxsplit=1)
split1(x) ==
    LET i == Find(x, ".", 1)
    IN  IF i = 0 THEN <<x>>
        ELSE <<SubSeq(x, 1, i - 1), SubSeq(x, i + 1, Len(x))>>

\* str(value), as str.format() renders a field.
str(v) ==
    CASE Tag(v) = "S" -> v[2]
      [] Tag(v) = "N" -> <<"None">>
      [] Tag(v) = "B" -> IF v[2] THEN <<"True">> ELSE <<"False">>
      [] OTHER -> <<"<object>">>

\* template.format(x=resource).  A template is a sequence of parts:
\* <<"lit", symbol>> is literal text, <<"x", name>> is the field {x.name}.
\* The text of one part followed by the text of the rest, or the error
\* raised on the way: text is the literal, or the outcome of reading the
\* field.
format_part(text, rest) ==
    IF IsErr(text) THEN text
    ELSE IF IsErr(rest) THEN rest
    ELSE Ok(Val(text) \o Val(rest))

format_field(a) == IF IsErr(a) THEN a ELSE Ok(str(Val(a)))

RECURSIVE format(_, _)
format(template, x) ==
    IF template = <<>> THEN Ok(<<>>)
    ELSE format_part(IF Head(template)[1] = "lit"
                     THEN Ok(<<Head(template)[2]>>)
                     ELSE format_field(getattr(x, Head(template)[2])),
                     format(Tail(template), x))

-----------------------------------------------------------------------------
(* Reshaper.  self is the Reshaper: its versioned_id_template, and the     *)
(* order in which this run of the interpreter iterates a set of strings    *)
(* (hash_order), which Python leaves unspecified.                          *)

\* The path without the delimiters it ends with.
RECURSIVE rstrip(_)
rstrip(x) ==
    IF x # <<>> /\ x[Len(x)] = "." THEN rstrip(SubSeq(x, 1, Len(x) - 1)) ELSE x

\* A slip: x.rstrip(".").split(".", maxsplit=1), which forgives a trailing
\* delimiter.
levels_rstrip(keep) == [i \in 1..Len(keep) |-> split1(rstrip(keep[i]))]

\* levels = [x.split(".", maxsplit=1) for x in keep]
levels(keep) == [i \in 1..Len(keep) |-> split1(keep[i])]

\* The distinct x[0] of levels, each at its first occurrence.
RECURSIVE Distinct(_, _)
Distinct(lv, seen) ==
    IF lv = <<>> THEN <<>>
    ELSE IF Head(lv)[1] \in seen THEN Distinct(Tail(lv), seen)
    ELSE <<Head(lv)[1]>> \o Distinct(Tail(lv), seen \cup {Head(lv)[1]})

Reverse(s) == [i \in 1..Len(s) |-> s[Len(s) + 1 - i]]

\* roots = {x[0] for x in levels}, as the sequence "for root in roots" visits.
roots(self, lv) ==
    IF self.hash_order = "forward" THEN Distinct(lv, {})
    ELSE Reverse(Distinct(lv, {}))

\* leafs = [x[1] for x in levels if len(x) > 1 and x[0] == root]
RECURSIVE leafs(_, _)
leafs(lv, root) ==
    IF lv = <<>> THEN <<>>
    ELSE (IF Len(Head(lv)) > 1 /\ Head(lv)[1] = root THEN <<Head(lv)[2]>> ELSE <<>>)
         \o leafs(Tail(lv), root)

\* A slip: getattr(resource, root, None), which skips an unknown root.
value_of_or_none(resource, root) ==
    IF HasAttr(resource, root) THEN getattr(resource, root) ELSE Ok(None)

\* value = getattr(resource, root)
value_of(resource, root) == getattr(resource, root)

\* properties = {k: v for k, v in attributes if k not in value._RESERVED}
RECURSIVE not_reserved(_)
not_reserved(attributes) ==
    IF attributes = <<>> THEN <<>>
    ELSE (IF Head(attributes)[1] \in _RESERVED THEN <<>> ELSE <<Head(attributes)>>)
         \o not_reserved(Tail(attributes))

\* A slip: properties = dict(attributes), the reserved attributes with them.
properties_unfiltered(value) == __dict__(value)

properties(value) == not_reserved(__dict__(value))

\* The formatted template as a Python string, or the error formatting
\* raised.
formatted(f) == IF IsErr(f) THEN f ELSE Ok(Str(Val(f)))

\* A slip: "if versioned:", which rewrites every scalar root.
scalar_value_any_root(self, resource, root, value, versioned) ==
    IF versioned
    THEN formatted(format(self.versioned_id_template, resource))
    ELSE Ok(value)

\* A slip: "if root == 'id':", which versions the id whatever the flag.
scalar_value_any_flag(self, resource, root, value, versioned) ==
    IF root = <<"id">>
    THEN formatted(format(self.versioned_id_template, resource))
    ELSE Ok(value)

\* The else branch of _reshape: the new value of a root that holds neither a
\* list nor a resource.
scalar_value(self, resource, root, value, versioned) ==
    IF root = <<"id">> /\ versioned
    THEN formatted(format(self.versioned_id_template, resource))
    ELSE Ok(value)

RECURSIVE _reshape(_, _, _, _)

\* [self._reshape(x, keep, versioned) for x in resources]
\* The first element before the others, or the first error raised.
comprehension(x, xs) ==
    IF IsErr(x) THEN x
    ELSE IF IsErr(xs) THEN xs
    ELSE Ok(<<Val(x)>> \o Val(xs))

\* The elements as a Python list, or the error raised.
listed(xs) == IF IsErr(xs) THEN xs ELSE Ok(List(Val(xs)))

RECURSIVE _reshape_each(_, _, _, _)
_reshape_each(self, resources, keep, versioned) ==
    IF resources = <<>> THEN Ok(<<>>)
    ELSE comprehension(_reshape(self, Head(resources), keep, versioned),
                       _reshape_each(self, Tail(resources), keep, versioned))

_reshape_many(self, resources, keep, versioned) ==
    listed(_reshape_each(self, resources, keep, versioned))

\* A slip: the flag is not handed down to the nested resource.
_reshape_one_unversioned(self, resource, keep, versioned) ==
    _reshape(self, resource, keep, FALSE)

_reshape_one(self, resource, keep, versioned) ==
    _reshape(self, resource, keep, versioned)

\* The body of "for root in roots" up to the setattr: the new value of root.
\* A slip: "if leafs:" guards the list branch as it guards the resource
\* branch, and a list without leafs is kept as it is.
new_value_of_list_kept(self, resource, root, value, leaves, versioned) ==
    IF IsList(value)
    THEN IF leaves # <<>>
         THEN _reshape_many(self, Elems(value), leaves, versioned)
         ELSE Ok(value)
    ELSE IF IsResource(value)
    THEN IF leaves # <<>>
         THEN _reshape_one(self, value, leaves, versioned)
         ELSE Ok(Resource(properties(value)))
    ELSE scalar_value(self, resource, root, value, versioned)

\* The branches on the type of value, from "if isinstance(value, List)" on.
new_value_of(self, resource, root, value, leaves, versioned) ==
    IF IsList(value)
    THEN _reshape_many(self, Elems(value), leaves, versioned)
    ELSE IF IsResource(value)
    THEN IF leaves # <<>>
         THEN _reshape_one(self, value, leaves, versioned)
         ELSE Ok(Resource(properties(value)))
    ELSE scalar_value(self, resource, root, value, versioned)

\* new_value once value is read, or the error reading it raised.
after_getattr(self, resource, root, got, leaves, versioned) ==
    IF IsErr(got) THEN got
    ELSE new_value_of(self, resource, root, Val(got), leaves, versioned)

new_value(self, resource, lv, root, versioned) ==
    after_getattr(self, resource, root, value_of(resource, root),
                  leafs(lv, root), versioned)

\* for root in roots: ...; setattr(new, root, new_value)
RECURSIVE for_root_in(_, _, _, _, _, _)

\* setattr(new, root, new_value) and the roots that follow, or the error that
\* the computation of new_value raised.
setattr_and_next(nv, rs, self, resource, lv, versioned, new) ==
    IF IsErr(nv) THEN nv
    ELSE for_root_in(Tail(rs), self, resource, lv, versioned,
                     setattr(new, Head(rs), Val(nv)))

for_root_in(rs, self, resource, lv, versioned, new) ==
    IF rs = <<>> THEN Ok(new)
    ELSE setattr_and_next(new_value(self, resource, lv, Head(rs), versioned),
                          rs, self, resource, lv, versioned, new)

\* _reshape from "roots = ..." on.
_reshape_levels(self, resource, lv, versioned) ==
    for_root_in(roots(self, lv), self, resource, lv, versioned, Resource(<<>>))

_reshape(self, resource, keep, versioned) ==
    _reshape_levels(self, resource, levels(keep), versioned)

\* dispatch(data, fun_many, fun_one, ...): a list goes to the "many" function,
\* a single resource to the "one" function.
dispatch_reshape(self, data, keep, versioned) ==
    IF IsList(data) THEN _reshape_many(self, Elems(data), keep, versioned)
    ELSE _reshape_one(self, data, keep, versioned)

\* Reshaper.reshape
reshape(self, data, keep, versioned) == dispatch_reshape(self, data, keep, versioned)

-----------------------------------------------------------------------------
(* collect_values.  A dict is <<"D", items>>, items the sequence of its    *)
(* <<key, value>> pairs.                                                   *)

Dict(items) == <<"D", items>>

IsDict(v) == Tag(v) = "D"

\* The key as_json() gives a property: "id" and "type" come out as "@id" and
\* "@type".
json_key(name) ==
    IF name \in {<<"id">>, <<"type">>} THEN <<"@">> \o name ELSE name

\* as_json(data, False, False): resources become dicts of their properties,
\* at every depth.
RECURSIVE as_json(_)
as_json(v) ==
    IF IsResource(v)
    THEN Dict([i \in 1..Len(Props(v)) |->
                  <<json_key(Props(v)[i][1]), as_json(Props(v)[i][2])>>])
    ELSE IF IsList(v)
    THEN List([i \in 1..Len(Elems(v)) |-> as_json(Elems(v)[i])])
    ELSE v

\* _collect(things), as the list of what it yields.
RECURSIVE _collect(_)
RECURSIVE _collect_items(_)
_collect_items(items) ==
    IF items = <<>> THEN <<>>
    ELSE LET v == Head(items)[2]
         IN  (IF IsList(v) THEN _collect(Elems(v))
              ELSE IF IsDict(v) THEN _collect(<<v>>)
              ELSE <<v>>)
             \o _collect_items(Tail(items))

_collect(things) ==
    IF things = <<>> THEN <<>>
    ELSE (IF IsDict(Head(things)) THEN _collect_items(Head(things)[2]) ELSE <<>>)
         \o _collect(Tail(things))

\* The try block of collect_values.
\* prepared = jsoned if isinstance(jsoned, List) else [jsoned]
prepared(jsoned) == IF IsList(jsoned) THEN Elems(jsoned) ELSE <<jsoned>>

\* The try block once reshaped is there, or the error reshaping raised.
collected(reshaped) ==
    IF IsErr(reshaped) THEN reshaped
    ELSE Ok(List(_collect(prepared(as_json(Val(reshaped))))))

try_collect(self, data, follow) ==
    collected(dispatch_reshape(self, data, <<follow>>, FALSE))

\* A slip: no except clause, the AttributeError reaches the caller.
except_nothing(outcome, exception) == outcome

\* except AttributeError: raise exception("path to follow is incorrect")
except_AttributeError(outcome, exception) ==
    IF IsErr(outcome) /\ Kind(outcome) = "AttributeError"
    THEN Err(exception, <<"path to follow is incorrect">>)
    ELSE outcome

\* collect_values(data, follow, exception); self is the Reshaper("") it makes.
collect_values(self, data, follow, exception) ==
    except_AttributeError(try_collect(self, data, follow), exception)

-----------------------------------------------------------------------------
(* The dataframe conversions.  A dataframe is <<"T", columns, rows>>:      *)
(* columns the sequence of the headers, rows the sequence of the rows,     *)
(* each the sequence of its cells, one per column.  <<"NaN">> is numpy's   *)
(* nan, the marker of a missing cell.                                      *)

NaN == <<"NaN">>

DataFrame(columns, rows) == <<"T", columns, rows>>

IsDataFrame(v) == Tag(v) = "T"

Columns(df) == df[2]

Rows(df) == df[3]

\* The values an na argument stands for: its elements when it is a list.
na_values(na) ==
    IF IsList(na) THEN {Elems(na)[i] : i \in 1..Len(Elems(na))} ELSE {na}

\* The <<header, value>> pairs of a dict, depth first and left to right: a
\* nested dict gives the pairs of its own keys under "parent<nesting>child".
RECURSIVE flatten_items(_, _, _)
flatten_items(items, prefix, nesting) ==
    IF items = <<>> THEN <<>>
    ELSE LET k    == Head(items)[1]
             v    == Head(items)[2]
             name == IF prefix = <<>> THEN k ELSE prefix \o <<nesting>> \o k
         IN  (IF IsDict(v) THEN flatten_items(v[2], name, nesting)
              ELSE << <<name, v>> >>)
             \o flatten_items(Tail(items), prefix, nesting)

flatten(dict, nesting) == flatten_items(dict[2], <<>>, nesting)

\* columns extended by the headers of record that it lacks, in the record's
\* order.
RECURSIVE with_new_columns(_, _)
with_new_columns(columns, record) ==
    IF record = <<>> THEN columns
    ELSE with_new_columns(
            IF \E i \in 1..Len(columns) : columns[i] = Head(record)[1]
            THEN columns ELSE Append(columns, Head(record)[1]),
            Tail(record))

\* A slip: the scan takes the records from the last to the first.
RECURSIVE column_union_last_first(_, _)
column_union_last_first(records, columns) ==
    IF records = <<>> THEN columns
    ELSE with_new_columns(column_union_last_first(Tail(records), columns),
                          Head(records))

\* The columns of a table of records: each header where the scan of the
\* records, in order, first meets it.
RECURSIVE column_union(_, _)
column_union(records, columns) ==
    IF records = <<>> THEN columns
    ELSE column_union(Tail(records), with_new_columns(columns, Head(records)))

\* The cell of a record under a header: its value, nan when it has none.
cell_of(record, header) ==
    IF \E i \in 1..Len(record) : record[i][1] = header
    THEN record[CHOOSE i \in 1..Len(record) : record[i][1] = header][2]
    ELSE NaN

\* The cell written for a value: nan for None and for the na values.
na_cell(value, na) ==
    IF value = None \/ value \in na_values(na) THEN NaN ELSE value

\* toTable: one row per tree, the columns the union of the rows' headers.
toTable(trees, na, nesting) ==
    LET records == [i \in 1..Len(trees) |-> flatten(as_json(trees[i]), nesting)]
        columns == column_union(records, <<>>)
    IN  DataFrame(columns,
                  [r \in 1..Len(records) |->
                      [c \in 1..Len(columns) |->
                          na_cell(cell_of(records[r], columns[c]), na)]])

\* A slip: the na argument is dropped on the way, the default is used.
as_dataframe_default_na(data, na, nesting) ==
    Ok(toTable(Elems(data), List(<<None>>), nesting))

\* KnowledgeGraphForge.as_dataframe(data, na, nesting)
as_dataframe(data, na, nesting) == Ok(toTable(Elems(data), na, nesting))

\* Whether a cell is missing: nan, None or one of the na values.
is_na(cell, na) == cell \in {NaN, None} \cup na_values(na)

IndexOf(props, name) ==
    IF \E i \in 1..Len(props) : props[i][1] = name
    THEN CHOOSE i \in 1..Len(props) : props[i][1] = name
    ELSE 0

\* A slip: a path that meets a field replaces it, no conflict is seen.
RECURSIVE set_path_overwriting(_, _, _)
set_path_overwriting(props, segs, value) ==
    LET k   == Head(segs)
        i   == IndexOf(props, k)
        sub == IF Len(segs) = 1 THEN value
               ELSE Resource(Val(set_path_overwriting(
                        IF i # 0 /\ IsResource(props[i][2])
                        THEN Props(props[i][2]) ELSE <<>>,
                        Tail(segs), value)))
    IN  IF i = 0 THEN Ok(Append(props, <<k, sub>>))
        ELSE Ok([props EXCEPT ![i] = <<k, sub>>])

\* The properties with value set at the path segs: a resource is made for
\* each segment before the last where there is none yet, and reused where
\* there is one; a path that meets a scalar on its way, or a field at its
\* end, is a ShapeConflict.
RECURSIVE set_path(_, _, _)
set_path(props, segs, value) ==
    LET k == Head(segs)
        i == IndexOf(props, k)
    IN  IF Len(segs) = 1
        THEN IF i # 0 THEN Err("ShapeConflict", k)
             ELSE Ok(Append(props, <<k, value>>))
        ELSE IF i = 0
        THEN LET sub == set_path(<<>>, Tail(segs), value)
             IN  Ok(Append(props, <<k, Resource(Val(sub))>>))
        ELSE IF IsResource(props[i][2])
        THEN LET sub == set_path(Props(props[i][2]), Tail(segs), value)
             IN  IF IsErr(sub) THEN sub
                 ELSE Ok([props EXCEPT ![i] = <<k, Resource(Val(sub))>>])
        ELSE Err("ShapeConflict", k)

\* The properties of the tree of one row, from column c on.
RECURSIVE from_row(_, _, _, _, _, _)
from_row(columns, row, c, na, nesting, props) ==
    IF c > Len(columns) THEN Ok(props)
    ELSE IF is_na(row[c], na)
    THEN from_row(columns, row, c + 1, na, nesting, props)
    ELSE LET next == set_path(props, split(columns[c], nesting), row[c])
         IN  IF IsErr(next) THEN next
             ELSE from_row(columns, row, c + 1, na, nesting, Val(next))

RECURSIVE from_rows(_, _, _, _)
from_rows(columns, rows, na, nesting) ==
    IF rows = <<>> THEN Ok(<<>>)
    ELSE LET x == from_row(columns, Head(rows), 1, na, nesting, <<>>)
         IN  IF IsErr(x) THEN x
             ELSE LET xs == from_rows(columns, Tail(rows), na, nesting)
                  IN  IF IsErr(xs) THEN xs
                      ELSE Ok(<<Resource(Val(x))>> \o Val(xs))

\* fromTable: one tree per row; the tree itself when there is one row.
fromTable(table, na, nesting) ==
    LET trees == from_rows(Columns(table), Rows(table), na, nesting)
    IN  IF IsErr(trees) THEN trees
        ELSE IF Len(Val(trees)) = 1 THEN Ok(Val(trees)[1])
        ELSE Ok(List(Val(trees)))

\* A slip: the na argument is dropped on the way, the default is used.
from_dataframe_default_na(data, na, nesting) == fromTable(data, NaN, nesting)

\* KnowledgeGraphForge.from_dataframe(data, na, nesting)
from_dataframe(data, na, nesting) == fromTable(data, na, nesting)

-----------------------------------------------------------------------------
(* The inputs of the reshaper: resources of up to three levels over the    *)
(* properties id, q (strings) and p (a string, a resource or a list).      *)

ID == <<"id">>

P == <<"p">>

Q == <<"q">>

\* The reserved attributes of a resource a store has registered and validated.
StoredMeta ==
    [last_action |-> Opaque("Action"), validated |-> Bool(TRUE),
     synchronized |-> Bool(TRUE), store_metadata |-> Opaque("DictWrapper")]

Metas == {DefaultMeta, StoredMeta}

Optional(name, values) == {<<>>} \cup {<< <<name, v>> >> : v \in values}

\* The property sequences with an optional id, an optional q and an optional
\* p among pvalues.
PropsOver(pvalues) ==
    {a \o b \o c : a \in Optional(ID, {Str(<<"123">>)}),
                   b \in Optional(Q, {Str(<<"v">>)}),
                   c \in Optional(P, pvalues)}

ResourcesOver(pvalues, metas) ==
    {MkResource(ps, m) : ps \in PropsOver(pvalues), m \in metas}

\* What a list holds: two flat resources and a string.
Elements ==
    {Resource(<< <<ID, Str(<<"123">>)>>, <<Q, Str(<<"v">>)>> >>),
     Resource(<< <<ID, Str(<<"345">>)>> >>),
     Str(<<"s">>)}

Lists == {List(xs) : xs \in SeqsUpTo(Elements, MaxLen)}

GrandChildren == ResourcesOver({}, {StoredMeta})

\* A resource that holds a list of a string and a resource.
ListHolder ==
    Resource(<< <<Q, Str(<<"v">>)>>,
                <<P, List(<<Str(<<"s">>),
                            Resource(<< <<ID, Str(<<"345">>)>> >>)>>)>> >>)

Children ==
    ResourcesOver({Str(<<"s">>)} \cup GrandChildren, {StoredMeta}) \cup {ListHolder}

Resources == ResourcesOver({Str(<<"s">>)} \cup Children \cup Lists, Metas)

\* The lists of resources a call takes.
ResourceLists ==
    {List(xs) : xs \in SeqsUpTo(
        {MkResource(<< <<ID, Str(<<"123">>)>>, <<Q, Str(<<"v">>)>> >>, StoredMeta),
         MkResource(<< <<ID, Str(<<"345">>)>> >>, StoredMeta)}, MaxLen)}

Inputs == Resources \cup ResourceLists

\* The paths a keep holds.
Paths ==
    {ID, Q, P, <<"zz">>, <<"_synchronized">>,
     <<"p", ".", "id">>, <<"p", ".", "q">>, <<"p", ".", "zz">>,
     <<"p", ".", "p", ".", "q">>, <<"p", ".", "p", ".", "zz">>,
     <<"p", ".", "p", ".", "id">>,
     <<>>, <<"p", ".">>}

\* Two-path keeps: a root twice, two roots (one unknown), a root with and
\* without a leaf, two leafs of one root.
PairKeeps ==
    {<<ID, ID>>, <<ID, Q>>, <<Q, ID>>, <<ID, <<"zz">>>>, <<<<"zz">>, Q>>,
     <<ID, <<"_synchronized">>>>,
     <<P, <<"p", ".", "q">>>>, <<<<"p", ".", "q">>, P>>,
     <<<<"p", ".", "q">>, <<"p", ".", "id">>>>, <<<<"p", ".", "id">>, <<"p", ".", "zz">>>>,
     <<ID, <<"p", ".", "q">>>>, <<<<"p", ".", "p", ".", "q">>, <<"p", ".", "id">>>>,
     <<ID, <<"p", ".">>>>}

\* The paths every keep of up to MaxKeep paths is made of.
KeepPaths == {ID, P, <<"p", ".", "q">>}

Keeps == SeqsUpTo(KeepPaths, MaxKeep) \cup {<<path>> : path \in Paths} \cup PairKeeps

\* "{x.id}-v1" and "{x.id}?rev={x.q}"
Templates ==
    {<< <<"x", ID>>, <<"lit", "-v1">> >>,
     << <<"x", ID>>, <<"lit", "?rev=">>, <<"x", Q>> >>}

HashOrders == {"forward", "backward"}

Reshapers == [versioned_id_template : Templates, hash_order : HashOrders]

Exceptions == {"Exception", "DownloadingError"}

-----------------------------------------------------------------------------
(* The calls. *)

Idle == [op |-> "idle"]

Nothing == <<"nothing">>

\* No call came before the current one.
NoFirst == [call |-> Idle, ret |-> Nothing]

Init ==
    /\ input \in Inputs
    /\ call = Idle
    /\ ret = Nothing
    /\ first = NoFirst

\* forge.reshape(data, keep, versioned)
Reshape ==
    /\ call.op = "idle"
    /\ \E self \in Reshapers, keep \in Keeps, versioned \in BOOLEAN :
          /\ call' = [op |-> "reshape", self |-> self, data |-> input,
                      keep |-> keep, versioned |-> versioned]
          /\ ret' = reshape(self, input, keep, versioned)
    /\ first' = NoFirst
    /\ UNCHANGED input

\* forge.reshape(forge.reshape(data, keep, versioned), keep, versioned)
ReshapeAgain ==
    /\ call.op = "reshape"
    /\ IsOk(ret)
    /\ call' = [call EXCEPT !.op = "reshape_again", !.data = Val(ret)]
    /\ ret' = reshape(call.self, Val(ret), call.keep, call.versioned)
    /\ first' = [call |-> call, ret |-> ret]
    /\ UNCHANGED input

\* collect_values(data, follow, exception)
CollectValues ==
    /\ call.op = "idle"
    /\ \E follow \in Paths, exception \in Exceptions, order \in HashOrders :
          LET self == [versioned_id_template |-> <<>>, hash_order |-> order]
          IN  /\ call' = [op |-> "collect_values", self |-> self, data |-> input,
                          follow |-> follow, exception |-> exception]
              /\ ret' = collect_values(self, input, follow, exception)
    /\ first' = NoFirst
    /\ UNCHANGED input

\* The call is over.
Return ==
    /\ call.op # "idle"
    /\ call' = Idle
    /\ ret' = Nothing
    /\ first' = NoFirst
    /\ UNCHANGED input

Next == Reshape \/ ReshapeAgain \/ CollectValues \/ Return

Spec == Init /\ [][Next]_vars

-----------------------------------------------------------------------------
(* The inputs of the dataframe conversions. *)

TYPE == <<"type">>

P1 == <<"p1">>

P2 == <<"p2">>

P4 == <<"p4">>

P5 == <<"p5">>

\* Flat resources: an optional id, and p1 a string, None or a string that
\* stands for a missing value.
FlatTrees ==
    {Resource(a \o b) :
        a \in Optional(ID, {Str(<<"123">>)}),
        b \in Optional(P1, {Str(<<"v1">>), None, Str(<<"NA">>), Str(<<"(missing)">>)})}

\* The resources nested under p4, themselves nesting under p2.
NestedTrees ==
    {Resource(<<>>),
     Resource(<< <<P1, Str(<<"v1">>)>> >>),
     Resource(<< <<P1, None>> >>),
     Resource(<< <<ID, Str(<<"123">>)>>, <<TYPE, Str(<<"Type">>)>>,
                 <<P1, Str(<<"(missing)">>)>> >>),
     Resource(<< <<P2, Resource(<< <<P5, Str(<<"v5">>)>> >>)>> >>),
     Resource(<< <<P2, Resource(<<>>)>>, <<P1, Str(<<"v1">>)>> >>),
     Resource(<< <<P1, Str(<<"v1">>)>>,
                 <<P2, Resource(<< <<P5, Str(<<"NA">>)>>, <<P1, None>> >>)>> >>),
     Resource(<< <<P2, Str(<<"v2">>)>>, <<P1, Str(<<"v1">>)>> >>)}

DeepTrees ==
    {Resource(<< <<P1, Str(<<"v1">>)>>, <<P4, v>> >>) :
        v \in {Str(<<"v4">>)} \cup NestedTrees}
    \cup {Resource(<< <<P4, Resource(<< <<P1, Str(<<"v1">>)>> >>)>>,
                      <<ID, Str(<<"678">>)>> >>),
           Resource(<< <<P1, Str(<<"v1">>)>>, <<ID, Str(<<"123">>)>> >>)}

TableTrees == FlatTrees \cup DeepTrees

Batches == {List(xs) : xs \in SeqsUpTo(TableTrees, MaxRows)}

\* The headers of the dataframes given to from_dataframe.
Headers ==
    {ID, P4, <<"p4", ".", "p1">>, <<"p4", ".", "p1", ".", "p5">>, <<"p4", "__", "p1">>}

\* No column, one column, and two columns: unrelated, one nesting under the
\* other (both orders, one or two levels apart, either delimiter).
ColumnLists ==
    {<<>>} \cup {<<a>> : a \in Headers}
           \cup {<<ID, P4>>, <<ID, <<"p4", ".", "p1">>>>,
                 <<P4, <<"p4", ".", "p1">>>>, <<<<"p4", ".", "p1">>, P4>>,
                 <<<<"p4", ".", "p1">>, <<"p4", ".", "p1", ".", "p5">>>>,
                 <<<<"p4", ".", "p1", ".", "p5">>, <<"p4", ".", "p1">>>>,
                 <<P4, <<"p4", ".", "p1", ".", "p5">>>>,
                 <<P4, <<"p4", "__", "p1">>>>, <<<<"p4", "__", "p1">>, P4>>}

Cells == {Str(<<"v">>), NaN, Str(<<"NA">>), Str(<<"(missing)">>)}

DataFrames ==
    UNION {{DataFrame(columns, rows) :
               rows \in SeqsUpTo([1..Len(columns) -> Cells], MaxRows)} :
           columns \in ColumnLists}

\* The na arguments: the default of as_dataframe, one string, two strings.
NaArguments ==
    {List(<<None>>), Str(<<"(missing)">>),
     List(<<Str(<<"NA">>), Str(<<"(missing)">>)>>)}

\* The na arguments of from_dataframe, its default first.
FromNaArguments ==
    {NaN, Str(<<"(missing)">>), List(<<Str(<<"NA">>), Str(<<"(missing)">>)>>)}

Nestings == {".", "__"}

-----------------------------------------------------------------------------
(* The conversions as calls. *)

InitTable ==
    /\ input \in Batches \cup DataFrames
    /\ call = Idle
    /\ ret = Nothing
    /\ first = NoFirst

\* forge.as_dataframe(data, na, nesting)
AsDataframe ==
    /\ call.op = "idle"
    /\ IsList(input)
    /\ \E na \in NaArguments, nesting \in Nestings :
          /\ call' = [op |-> "as_dataframe", data |-> input, na |-> na,
                      nesting |-> nesting]
          /\ ret' = as_dataframe(input, na, nesting)
    /\ first' = NoFirst
    /\ UNCHANGED input

\* forge.from_dataframe(forge.as_dataframe(data, na, nesting), nesting=nesting)
FromDataframeBack ==
    /\ call.op = "as_dataframe"
    /\ IsOk(ret)
    /\ call' = [op |-> "from_dataframe", data |-> Val(ret), na |-> NaN,
                nesting |-> call.nesting]
    /\ ret' = from_dataframe(Val(ret), NaN, call.nesting)
    /\ first' = [call |-> call, ret |-> ret]
    /\ UNCHANGED input

\* forge.from_dataframe(data, na, nesting)
FromDataframe ==
    /\ call.op = "idle"
    /\ IsDataFrame(input)
    /\ \E na \in FromNaArguments, nesting \in Nestings :
          /\ call' = [op |-> "from_dataframe", data |-> input, na |-> na,
                      nesting |-> nesting]
          /\ ret' = from_dataframe(input, na, nesting)
    /\ first' = NoFirst
    /\ UNCHANGED input

NextTable == AsDataframe \/ FromDataframeBack \/ FromDataframe \/ Return

SpecTable == InitTable /\ [][NextTable]_vars

-----------------------------------------------------------------------------
(* The notions the properties below are stated with. *)

\* The segments of a dotted path.
Segments(path) == split(path, ".")

\* The attribute of a resource that has it.
Attr(r, name) == Val(getattr(r, name))

\* The segments of one path that are looked up on a tree that lacks them:
\* a segment is looked up on v, or on every element of the list v; the rest
\* of the path is followed into a resource or a list, not into a scalar.
RECURSIVE Missing(_, _)
Missing(v, segs) ==
    IF segs = <<>> THEN {}
    ELSE IF IsList(v)
    THEN UNION {Missing(Elems(v)[i], segs) : i \in 1..Len(Elems(v))}
    ELSE IF ~HasAttr(v, Head(segs)) THEN {Head(segs)}
    ELSE LET value == Attr(v, Head(segs))
         IN  IF IsList(value) \/ IsResource(value)
             THEN Missing(value, Tail(segs))
             ELSE {}

MissingRoots(v, keep) ==
    UNION {Missing(v, Segments(keep[i])) : i \in 1..Len(keep)}

\* The fields a template reads.
TemplateFields(template) ==
    {template[i][2] : i \in {j \in 1..Len(template) : template[j][1] = "x"}}

\* A single resource or a list, as the sequence of its resources.
AsSequence(v) == IF IsList(v) THEN Elems(v) ELSE <<v>>

\* Equality of two values, the order of a resource's properties put aside.
RECURSIVE SameValue(_, _)
SameValue(a, b) ==
    IF IsResource(a) /\ IsResource(b)
    THEN /\ Meta(a) = Meta(b)
         /\ Len(Props(a)) = Len(Props(b))
         /\ \A i \in 1..Len(Props(a)) : \E j \in 1..Len(Props(b)) :
               /\ Props(a)[i][1] = Props(b)[j][1]
               /\ SameValue(Props(a)[i][2], Props(b)[j][2])
    ELSE IF IsList(a) /\ IsList(b)
    THEN /\ Len(Elems(a)) = Len(Elems(b))
         /\ \A i \in 1..Len(Elems(a)) : SameValue(Elems(a)[i], Elems(b)[i])
    ELSE a = b

\* The dotted paths of the fields of a value: a nested resource with
\* properties counts by its fields, a list by the fields of its elements.
RECURSIVE FieldPaths(_)
FieldPaths(v) ==
    IF IsList(v) THEN UNION {FieldPaths(Elems(v)[i]) : i \in 1..Len(Elems(v))}
    ELSE IF ~IsResource(v) THEN {}
    ELSE UNION {LET name == Props(v)[i][1]
                    sub  == FieldPaths(Props(v)[i][2])
                IN  IF sub = {} THEN {name} ELSE {name \o <<".">> \o q : q \in sub}
                : i \in 1..Len(Props(v))}

\* No value at a path.
Absent == <<"absent">>

\* The position of the property of a resource that is written under key.
KeyIndex(v, key) ==
    IF \E i \in 1..Len(Props(v)) : json_key(Props(v)[i][1]) = key
    THEN CHOOSE i \in 1..Len(Props(v)) : json_key(Props(v)[i][1]) = key
    ELSE 0

\* The value a tree holds at the end of a path of keys, when the path ends
\* on a value that is not a nested resource.
RECURSIVE LeafAt(_, _)
LeafAt(v, segs) ==
    IF segs = <<>> THEN (IF IsResource(v) THEN Absent ELSE Ok(v))
    ELSE IF ~IsResource(v) \/ KeyIndex(v, Head(segs)) = 0 THEN Absent
    ELSE LeafAt(Props(v)[KeyIndex(v, Head(segs))][2], Tail(segs))

\* The paths of keys of a tree that end on a value that is not a nested
\* resource.
RECURSIVE LeafPaths(_)
LeafPaths(v) ==
    UNION {LET key   == json_key(Props(v)[i][1])
               value == Props(v)[i][2]
           IN  IF IsResource(value)
               THEN {<<key>> \o q : q \in LeafPaths(value)}
               ELSE {<<key>>}
           : i \in 1..Len(Props(v))}

\* The first tree that holds a value at a path.
FirstRow(trees, segs) ==
    CHOOSE r \in 1..Len(trees) :
        /\ LeafAt(trees[r], segs) # Absent
        /\ \A q \in 1..(r - 1) : LeafAt(trees[q], segs) = Absent

\* Whether a depth-first, left-to-right walk of a tree meets the path a
\* before the path b.
RECURSIVE DfsBefore(_, _, _)
DfsBefore(v, a, b) ==
    IF Head(a) = Head(b)
    THEN DfsBefore(Props(v)[KeyIndex(v, Head(a))][2], Tail(a), Tail(b))
    ELSE KeyIndex(v, Head(a)) < KeyIndex(v, Head(b))

\* The field a tree holds at a path of property names, nested or not.
RECURSIVE FieldAt(_, _)
FieldAt(v, segs) ==
    IF segs = <<>> THEN Ok(v)
    ELSE IF ~IsResource(v) \/ IndexOf(Props(v), Head(segs)) = 0 THEN Absent
    ELSE FieldAt(Props(v)[IndexOf(Props(v), Head(segs))][2], Tail(segs))

\* A cell that stands for a missing value.
IsMissing(cell, na) == cell = NaN \/ cell \in na_values(na)

IsProperPrefix(a, b) == Len(a) < Len(b) /\ SubSeq(b, 1, Len(a)) = a

\* A row where one path is both a column with a value and the prefix of
\* another column with a value.
Conflicts(table, na, nesting) ==
    {r \in 1..Len(Rows(table)) :
        \E c \in 1..Len(Columns(table)), d \in 1..Len(Columns(table)) :
            /\ ~IsMissing(Rows(table)[r][c], na)
            /\ ~IsMissing(Rows(table)[r][d], na)
            /\ IsProperPrefix(split(Columns(table)[c], nesting),
                              split(Columns(table)[d], nesting))}

\* Whether a value, at any depth, holds one of the na values other than None.
RECURSIVE HasSentinel(_, _)
HasSentinel(v, na) ==
    IF IsList(v) THEN \E i \in 1..Len(Elems(v)) : HasSentinel(Elems(v)[i], na)
    ELSE IF IsResource(v)
    THEN \E i \in 1..Len(Props(v)) : HasSentinel(Props(v)[i][2], na)
    ELSE v # None /\ v \in na_values(na)

\* A value without its None fields, and without the nested resources that
\* have no field left.
RECURSIVE Pruned(_)
RECURSIVE PrunedProps(_)
Pruned(v) ==
    IF IsList(v) THEN List([i \in 1..Len(Elems(v)) |-> Pruned(Elems(v)[i])])
    ELSE IF IsResource(v) THEN MkResource(PrunedProps(Props(v)), Meta(v))
    ELSE v

PrunedProps(props) ==
    IF props = <<>> THEN <<>>
    ELSE LET value == Pruned(Head(props)[2])
         IN  (IF value = None \/ (IsResource(value) /\ Props(value) = <<>>)
              THEN <<>> ELSE << <<Head(props)[1], value>> >>)
             \o PrunedProps(Tail(props))

-----------------------------------------------------------------------------
C3_ReshapedIsFresh ==
    (call.op = "reshape" /\ IsOk(ret)) =>
        \A i \in 1..Len(AsSequence(Val(ret))) :
            Meta(AsSequence(Val(ret))[i]) = DefaultMeta

(* C4: a kept root whose value is neither a list nor a resource is copied  *)
(* unchanged, except that the root "id", when versioned, becomes the       *)
(* template formatted with the source resource: "{x.id}-v1" on "123"       *)
(* gives "123-v1".                                                         *)
C4_ScalarRoots ==
    (call.op = "reshape" /\ IsOk(ret)) =>
        \A k \in 1..Len(AsSequence(call.data)) :
            LET source   == AsSequence(call.data)[k]
                reshaped == AsSequence(Val(ret))[k]
            IN  \A i \in 1..Len(call.keep) :
                    LET root  == Segments(call.keep[i])[1]
                        value == Attr(source, root)
                    IN  (~IsList(value) /\ ~IsResource(value)) =>
                          /\ HasAttr(reshaped, root)
                          /\ Attr(reshaped, root) =
                                IF root = ID /\ call.versioned
                                THEN Str(Val(format(call.self.versioned_id_template,
                                                    source)))
                                ELSE value
                          /\ (/\ root = ID
                              /\ call.versioned
                              /\ value = Str(<<"123">>)
                              /\ call.self.versioned_id_template =
                                    << <<"x", ID>>, <<"lit", "-v1">> >>)
                             => Attr(reshaped, root) = Str(<<"123", "-v1">>)

\* The versioned id of the example, beside a scalar that is kept as it is.
C4_Witness ==
    /\ call.op = "reshape"
    /\ call.versioned
    /\ call.keep = <<ID, Q>>
    /\ IsOk(ret)
    /\ IsResource(Val(ret))
    /\ Attr(Val(ret), ID) = Str(<<"123", "-v1">>)
    /\ Attr(Val(ret), Q) = Str(<<"v">>)

(* C5: with versioned false, reshaping the result of a reshape with the    *)
(* same keep succeeds and gives that result again.                         *)
C5_Idempotent ==
    (call.op = "reshape_again" /\ ~call.versioned) =>
        /\ IsOk(ret)
        /\ SameValue(Val(ret), Val(first.ret))

\* A second reshape whose keep names exactly the fields of the first
\* result, one of them nested.
C5_Witness ==
    /\ call.op = "reshape_again"
    /\ ~call.versioned
    /\ FieldPaths(Val(first.ret)) = {call.keep[i] : i \in 1..Len(call.keep)}
    /\ \E i \in 1..Len(call.keep) : Len(Segments(call.keep[i])) > 1
    /\ IsOk(ret)

(* C10: collect_values fails with the exception the caller chose, not with *)
(* the AttributeError, whenever a segment of the path is looked up on a    *)
(* tree that lacks it, be the data one resource or a list.                 *)
C10_PathErrorTranslated ==
    call.op = "collect_values" =>
        (Missing(call.data, Segments(call.follow)) # {} =>
            /\ IsErr(ret)
            /\ Kind(ret) = call.exception
            /\ Kind(ret) # "AttributeError")

\* A list of two resources of which only the second lacks the field.
C10_Witness ==
    /\ call.op = "collect_values"
    /\ IsList(call.data)
    /\ Len(Elems(call.data)) = 2
    /\ Missing(Elems(call.data)[1], Segments(call.follow)) = {}
    /\ Missing(Elems(call.data)[2], Segments(call.follow)) # {}
    /\ IsErr(ret)
    /\ Kind(ret) = call.exception

(* C1: converting a batch of resources to a dataframe and back gives the   *)
(* batch again, fields that were None left out, provided no field holds    *)
(* one of the na values.                                                   *)
C1_RoundTrip ==
    (/\ call.op = "from_dataframe"
     /\ first.call.op = "as_dataframe"
     /\ ~HasSentinel(first.call.data, first.call.na)) =>
        /\ IsOk(ret)
        /\ SameValue(List(AsSequence(Val(ret))), Pruned(first.call.data))

C7_ColumnsAndCells ==
    call.op = "as_dataframe" =>
        /\ IsOk(ret)
        /\ LET trees   == Elems(call.data)
               columns == Columns(Val(ret))
               rows    == Rows(Val(ret))
           IN  /\ {columns[c] : c \in 1..Len(columns)} =
                     UNION {{join(path, call.nesting) : path \in LeafPaths(trees[r])}
                            : r \in 1..Len(trees)}
               /\ Len(rows) = Len(trees)
               /\ \A r \in 1..Len(rows) :
                     /\ Len(rows[r]) = Len(columns)
                     /\ \A c \in 1..Len(columns) :
                           LET leaf == LeafAt(trees[r],
                                              split(columns[c], call.nesting))
                           IN  rows[r][c] =
                                 IF \/ leaf = Absent
                                    \/ Val(leaf) = None
                                    \/ Val(leaf) \in na_values(call.na)
                                 THEN NaN ELSE Val(leaf)

\* A resource without the nested field of its sibling, and a cell that is
\* nan because its value is one of the na values.
C7_Witness ==
    /\ call.op = "as_dataframe"
    /\ call.na = Str(<<"(missing)">>)
    /\ IsOk(ret)
    /\ Len(Elems(call.data)) = 2
    /\ \E c \in 1..Len(Columns(Val(ret))) :
          /\ Len(split(Columns(Val(ret))[c], call.nesting)) > 1
          /\ LeafAt(Elems(call.data)[1],
                    split(Columns(Val(ret))[c], call.nesting)) = Absent
          /\ Rows(Val(ret))[1][c] = NaN
          /\ Rows(Val(ret))[2][c] # NaN
    /\ \E c \in 1..Len(Columns(Val(ret))) :
          /\ LeafAt(Elems(call.data)[2],
                    split(Columns(Val(ret))[c], call.nesting))
                = Ok(Str(<<"(missing)">>))
          /\ Rows(Val(ret))[2][c] = NaN

(* C8: the columns of as_dataframe have no duplicate and stand in the      *)
(* order of first encounter: by the first resource that has the path, and  *)
(* within one resource depth first and left to right.                      *)
C8_FirstEncounterOrder ==
    (call.op = "as_dataframe" /\ IsOk(ret)) =>
        LET trees   == Elems(call.data)
            columns == Columns(Val(ret))
        IN  \A a \in 1..Len(columns), b \in 1..Len(columns) :
                a < b =>
                    LET sa == split(columns[a], call.nesting)
                        sb == split(columns[b], call.nesting)
                        ra == FirstRow(trees, sa)
                        rb == FirstRow(trees, sb)
                    IN  /\ columns[a] # columns[b]
                        /\ \/ ra < rb
                           \/ ra = rb /\ DfsBefore(trees[ra], sa, sb)

\* The second resource brings a new column and holds a column of the first
\* one after it: the shared column stays where the first resource put it.
C8_Witness ==
    /\ call.op = "as_dataframe"
    /\ IsOk(ret)
    /\ Len(Elems(call.data)) = 2
    /\ \E a \in 1..Len(Columns(Val(ret))), b \in 1..Len(Columns(Val(ret))) :
          LET sa == split(Columns(Val(ret))[a], call.nesting)
              sb == split(Columns(Val(ret))[b], call.nesting)
          IN  /\ a < b
              /\ LeafAt(Elems(call.data)[1], sa) # Absent
              /\ LeafAt(Elems(call.data)[1], sb) = Absent
              /\ LeafAt(Elems(call.data)[2], sa) # Absent
              /\ DfsBefore(Elems(call.data)[2], sb, sa)

(* C9: from_dataframe fails with a ShapeConflict, and returns no resource, *)
(* whenever in one row a path is both a column with a value and the prefix *)
(* of another column with a value, whichever column comes first.           *)
C9_ShapeConflictSignalled ==
    (/\ call.op = "from_dataframe"
     /\ Conflicts(call.data, call.na, call.nesting) # {}) =>
        /\ IsErr(ret)
        /\ Kind(ret) = "ShapeConflict"

\* The nested column comes first, and only the second row has values in
\* both columns.
C9_Witness ==
    /\ call.op = "from_dataframe"
    /\ call.nesting = "."
    /\ Columns(call.data) = << <<"p4", ".", "p1">>, P4 >>
    /\ Conflicts(call.data, call.na, call.nesting) = {2}
    /\ IsErr(ret)
    /\ Kind(ret) = "ShapeConflict"

\* A path that is empty or ends with the delimiter.
IsMalformed(path) == path = <<>> \/ path[Len(path)] = "."

MalformedIn(keep) == {i \in 1..Len(keep) : IsMalformed(keep[i])}

LeafPathsUnder(keep, root) ==
    {i \in 1..Len(keep) :
        Segments(keep[i])[1] = root /\ Len(Segments(keep[i])) > 1}

(* C12: a kept root that holds a resource, with no path of keep going      *)
(* below it, comes out as a new resource with exactly the properties of    *)
(* the nested one, in their order and with their values as they are        *)
(* (resources under them included), and with none of its reserved          *)
(* attributes.                                                             *)
C12_WholeSubResource ==
    (call.op = "reshape" /\ IsOk(ret)) =>
        \A k \in 1..Len(AsSequence(call.data)) :
            \A i \in 1..Len(call.keep) :
                LET root  == Segments(call.keep[i])[1]
                    value == Attr(AsSequence(call.data)[k], root)
                IN  (IsResource(value) /\ LeafPathsUnder(call.keep, root) = {}) =>
                        Attr(AsSequence(Val(ret))[k], root) =
                            MkResource(Props(value), DefaultMeta)

\* The nested resource is synchronized and holds a synchronized resource:
\* the copy is not synchronized, the resource under it still is.
C12_Witness ==
    /\ call.op = "reshape"
    /\ call.keep = <<P>>
    /\ IsOk(ret)
    /\ IsResource(call.data)
    /\ IsResource(Attr(call.data, P))
    /\ Meta(Attr(call.data, P)) = StoredMeta
    /\ HasAttr(Attr(call.data, P), P)
    /\ IsResource(Attr(Attr(call.data, P), P))
    /\ Meta(Attr(Val(ret), P)) = DefaultMeta
    /\ Attr(Attr(Val(ret), P), P) = Attr(Attr(call.data, P), P)
    /\ Meta(Attr(Attr(Val(ret), P), P)) = StoredMeta

\* The values of a resource, a list or a scalar that are neither resources
\* nor lists, depth first and left to right.
RECURSIVE ScalarLeaves(_)
RECURSIVE ScalarLeavesOf(_)
ScalarLeaves(v) ==
    IF IsResource(v)
    THEN ScalarLeavesOf([i \in 1..Len(Props(v)) |-> Props(v)[i][2]])
    ELSE IF IsList(v) THEN ScalarLeavesOf(Elems(v))
    ELSE <<v>>

ScalarLeavesOf(vs) ==
    IF vs = <<>> THEN <<>>
    ELSE ScalarLeaves(Head(vs)) \o ScalarLeavesOf(Tail(vs))

\* Whether a value holds, at any depth, a list with an element that is
\* neither a resource nor a list.
RECURSIVE HasScalarInList(_)
HasScalarInList(v) ==
    IF IsResource(v)
    THEN \E i \in 1..Len(Props(v)) : HasScalarInList(Props(v)[i][2])
    ELSE IF IsList(v)
    THEN \E i \in 1..Len(Elems(v)) :
            \/ ~IsResource(Elems(v)[i]) /\ ~IsList(Elems(v)[i])
            \/ HasScalarInList(Elems(v)[i])
    ELSE FALSE

(* C13: when the path is valid, collect_values returns the scalar values   *)
(* of reshape(data, [follow], False), at any depth and those that are      *)
(* elements of a list included, depth first and left to right, and         *)
(* nothing else.                                                           *)
C13_CollectsEveryScalar ==
    (call.op = "collect_values" /\ IsOk(ret)) =>
        Val(ret) = List(ScalarLeaves(
                      Val(reshape(call.self, call.data, <<call.follow>>, FALSE))))

\* What follows the first delimiter of a path.
LeafOf(path) == SubSeq(path, Find(path, ".", 1) + 1, Len(path))

\* The leaf paths of keep under a root, in the order of keep.
RECURSIVE LeafsUnder(_, _)
LeafsUnder(keep, root) ==
    IF keep = <<>> THEN <<>>
    ELSE (IF Segments(Head(keep))[1] = root /\ Len(Segments(Head(keep))) > 1
          THEN <<LeafOf(Head(keep))>> ELSE <<>>)
         \o LeafsUnder(Tail(keep), root)

(* C14: a kept root that holds a list comes out as a list of the same      *)
(* length whose i-th element is the i-th element reshaped with the leaf    *)
(* paths of keep under that root; with no such leaf path every element of  *)
(* the result is a resource without any field.                             *)
C14_ListElementwise ==
    (call.op = "reshape" /\ IsOk(ret)) =>
        \A k \in 1..Len(AsSequence(call.data)) :
            \A i \in 1..Len(call.keep) :
                LET root  == Segments(call.keep[i])[1]
                    value == Attr(AsSequence(call.data)[k], root)
                    out   == Attr(AsSequence(Val(ret))[k], root)
                    under == LeafsUnder(call.keep, root)
                IN  IsList(value) =>
                      /\ IsList(out)
                      /\ Len(Elems(out)) = Len(Elems(value))
                      /\ \A j \in 1..Len(Elems(value)) :
                            /\ Ok(Elems(out)[j]) =
                                  reshape(call.self, Elems(value)[j], under,
                                          call.versioned)
                            /\ under = <<>> => Elems(out)[j] = Resource(<<>>)

\* A list of a resource with fields and a string, kept without a leaf
\* path: two resources without any field.
C14_Witness ==
    /\ call.op = "reshape"
    /\ call.keep = <<P>>
    /\ IsOk(ret)
    /\ IsResource(call.data)
    /\ Attr(call.data, P) =
          List(<<Resource(<< <<ID, Str(<<"123">>)>>, <<Q, Str(<<"v">>)>> >>),
                 Str(<<"s">>)>>)
    /\ Attr(Val(ret), P) = List(<<Resource(<<>>), Resource(<<>>)>>)

\* The roots of a keep.
RootsOf(keep) == {Segments(keep[i])[1] : i \in 1..Len(keep)}

\* The names of the properties of a resource.
FieldNames(r) == {Props(r)[j][1] : j \in 1..Len(Props(r))}

\* A keep without the repetitions of its paths.
RECURSIVE WithoutRepeats(_)
WithoutRepeats(keep) ==
    IF keep = <<>> THEN <<>>
    ELSE LET front == WithoutRepeats(SubSeq(keep, 1, Len(keep) - 1))
         IN  IF \E i \in 1..(Len(keep) - 1) : keep[i] = keep[Len(keep)]
             THEN front ELSE Append(front, keep[Len(keep)])

\* A keep without the path that is just root.
RECURSIVE WithoutBare(_, _)
WithoutBare(keep, root) ==
    IF keep = <<>> THEN <<>>
    ELSE (IF Head(keep) = root THEN <<>> ELSE <<Head(keep)>>)
         \o WithoutBare(Tail(keep), root)

\* The fields of every resource returned are the distinct roots of keep.
FieldsAreRoots ==
    \A k \in 1..Len(AsSequence(Val(ret))) :
        /\ FieldNames(AsSequence(Val(ret))[k]) = RootsOf(call.keep)
        /\ Len(Props(AsSequence(Val(ret))[k])) = Cardinality(RootsOf(call.keep))

\* A path given twice changes nothing.
RepeatsChangeNothing ==
    SameValue(Val(ret),
              Val(reshape(call.self, call.data, WithoutRepeats(call.keep),
                          call.versioned)))

\* Beside a path below it, the bare root of a nested resource changes
\* nothing.
LeafPathWins ==
    \A i \in 1..Len(call.keep) :
        (/\ Len(Segments(call.keep[i])) = 1
         /\ LeafPathsUnder(call.keep, call.keep[i]) # {}
         /\ \A k \in 1..Len(AsSequence(call.data)) :
               IsResource(Attr(AsSequence(call.data)[k], call.keep[i])))
        => SameValue(Val(ret),
                     Val(reshape(call.self, call.data,
                                 WithoutBare(call.keep, call.keep[i]),
                                 call.versioned)))

(* C15: the fields of a reshaped resource are exactly the distinct roots   *)
(* of keep, a path given twice changes nothing, and with both "p" and      *)
(* "p.q" in keep, p a nested resource, the result is that of keep without  *)
(* "p".                                                                    *)
C15_FieldsAreRootsLeafWins ==
    (call.op = "reshape" /\ IsOk(ret)) =>
        /\ FieldsAreRoots
        /\ RepeatsChangeNothing
        /\ LeafPathWins

\* Every id the segments lead to below source is, in out, the template
\* formatted with the resource that holds it.
RECURSIVE IdsVersionedBelow(_, _, _, _)
IdsVersionedBelow(template, source, out, segments) ==
    IF Len(segments) = 1
    THEN (/\ segments[1] = ID
          /\ ~IsList(Attr(source, ID))
          /\ ~IsResource(Attr(source, ID)))
         => Attr(out, ID) = Str(Val(format(template, source)))
    ELSE LET value == Attr(source, segments[1])
             below == Attr(out, segments[1])
         IN  IF IsResource(value)
             THEN /\ IsResource(below)
                  /\ IdsVersionedBelow(template, value, below, Tail(segments))
             ELSE IF IsList(value)
             THEN /\ IsList(below)
                  /\ Len(Elems(below)) = Len(Elems(value))
                  /\ \A j \in 1..Len(Elems(value)) :
                        IdsVersionedBelow(template, Elems(value)[j],
                                          Elems(below)[j], Tail(segments))
             ELSE TRUE

(* C16: with versioned true the flag goes down every recursion: an id kept *)
(* inside a nested resource or inside an element of a list (by "p.id",     *)
(* "p.p.id") is the template formatted with the resource the id belongs    *)
(* to, whatever the fields of the resources around it.                     *)
C16_NestedIdVersionedWithItsOwnTree ==
    (call.op = "reshape" /\ call.versioned /\ IsOk(ret)) =>
        \A k \in 1..Len(AsSequence(call.data)) :
            \A i \in 1..Len(call.keep) :
                Len(Segments(call.keep[i])) > 1 =>
                    IdsVersionedBelow(call.self.versioned_id_template,
                                      AsSequence(call.data)[k],
                                      AsSequence(Val(ret))[k],
                                      Segments(call.keep[i]))

\* The id of a nested resource versioned with the q of that resource, under
\* a resource that has no q the template could be formatted with.
C16_Witness ==
    /\ call.op = "reshape"
    /\ call.versioned
    /\ call.keep = << <<"p", ".", "id">> >>
    /\ call.self.versioned_id_template =
          << <<"x", ID>>, <<"lit", "?rev=">>, <<"x", Q>> >>
    /\ IsOk(ret)
    /\ IsResource(call.data)
    /\ ~HasAttr(call.data, Q)
    /\ IsResource(Attr(call.data, P))
    /\ Attr(Attr(Val(ret), P), ID) = Str(<<"123", "?rev=", "v">>)

\* The id of an element of a list versioned with the id of that element,
\* which is not the id of the resource that holds the list.
C16_WitnessInList ==
    /\ call.op = "reshape"
    /\ call.versioned
    /\ call.keep = << <<"p", ".", "id">> >>
    /\ IsOk(ret)
    /\ IsResource(call.data)
    /\ HasAttr(call.data, ID)
    /\ Attr(call.data, ID) = Str(<<"123">>)
    /\ IsList(Attr(call.data, P))
    /\ Len(Elems(Attr(Val(ret), P))) > 0
    /\ Attr(Elems(Attr(Val(ret), P))[1], ID) = Str(<<"345", "-v1">>)

\* An id two resources down, versioned.
C16_WitnessDeep ==
    /\ call.op = "reshape"
    /\ call.versioned
    /\ call.keep = << <<"p", ".", "p", ".", "id">> >>
    /\ IsOk(ret)
    /\ IsResource(Val(ret))
    /\ IsResource(Attr(Val(ret), P))
    /\ IsResource(Attr(Attr(Val(ret), P), P))
    /\ Attr(Attr(Attr(Val(ret), P), P), ID) = Str(<<"123", "-v1">>)

====
